---- MODULE Spec2Model ----
(***************************************************************************)
(* pubmed-paper-fetcher: the affiliation classifier (affiliations.py), the *)
(* article metadata extractor (parser.py) and the batch loop and filter of *)
(* the command line (cli.py).                                              *)
(*                                                                         *)
(* A Python str is a sequence of one-character strings, so that lower(),   *)
(* the substring test `in`, the regular expressions, strip(), split() and  *)
(* join() are computed character by character.  An Optional value is a set *)
(* with at most one element: None is {} and a value v is {v}.              *)
(***************************************************************************)
EXTENDS Naturals, Sequences, FiniteSets

VARIABLES
    pc,                     \* the operation the drawn input is for, or main's position
    affiliation,            \* the affiliation string handed to AffiliationDetector
    verdict,                \* { is_company_affiliation(affiliation) }, {} until computed
    company_name,           \* { extract_company_name(affiliation) }, {} until computed
    pmid,                   \* parse_article's pmid argument
    article,                \* the article argument: an element, or None
    date_str,               \* { extract_publication_date(article) }, {} until computed
    author_affiliations,    \* { extract_author_affiliations(article) }, {} until computed
    corresponding_email,    \* { extract_corresponding_author_email(article) }, {} until computed
    non_academic_authors,   \* parse_article's list when it returns
    company_affiliations,   \* parse_article's set when it returns
    record,                 \* { the dict parse_article returned }, {} until it returns
    articles,               \* cli.main: the items of the articles dict, in iteration order
    idx,                    \* cli.main: the number of loop iterations done
    papers,                 \* cli.main: the papers dict
    errors,                 \* the pmids whose parse_article raised
    filtered_papers         \* cli.main: { filter_company_affiliated_papers(papers) }

vars == << pc, affiliation, verdict, company_name, pmid, article, date_str,
           author_affiliations, corresponding_email, non_academic_authors,
           company_affiliations, record, articles, idx, papers, errors, filtered_papers >>

-----------------------------------------------------------------------------
(* Characters and str primitives                                           *)

UpperSeq == <<"A","B","C","D","E","F","G","H","I","J","K","L","M","N","O","P","Q","R","S","T","U","V","W","X","Y","Z">>

LowerSeq == <<"a","b","c","d","e","f","g","h","i","j","k","l","m","n","o","p","q","r","s","t","u","v","w","x","y","z">>

DigitSeq == <<"0","1","2","3","4","5","6","7","8","9">>

Upper == { UpperSeq[i] : i \in 1..Len(UpperSeq) }
Lower == { LowerSeq[i] : i \in 1..Len(LowerSeq) }
Digit == { DigitSeq[i] : i \in 1..Len(DigitSeq) }
Letter == Upper \cup Lower

\* \s of the re module; the texts drawn below use the space only
Space == { " ", "\t", "\n" }

None == {}

Some(v) == { v }

\* the value of an Optional known to be not None
The(o) == CHOOSE v \in o : TRUE

\* Python truthiness of an Optional[str]: None and "" are false
Truthy(o) == o # None /\ The(o) # << >>

\* the character at 1-based position p, "" outside the string
At(t, p) == IF p \in 1..Len(t) THEN t[p] ELSE ""

\* str.lower() of one character
lower_char(c) ==
    IF c \in Upper THEN LowerSeq[CHOOSE i \in 1..Len(UpperSeq) : UpperSeq[i] = c] ELSE c

\* str.lower()
lower(t) == [ i \in 1..Len(t) |-> lower_char(t[i]) ]

\* t[p:].startswith(w)
HasAt(t, p, w) == p >= 1 /\ p + Len(w) - 1 <= Len(t) /\ SubSeq(t, p, p + Len(w) - 1) = w

\* w in t
Contains(t, w) == \E p \in 1..(Len(t) + 1) : HasAt(t, p, w)

\* some word of the list ws occurs in t at position p
AnyAt(t, p, ws) == \E k \in 1..Len(ws) : HasAt(t, p, ws[k])

\* the first word of the list ws (alternation order) that occurs in t at p
FirstAt(t, p, ws) ==
    ws[CHOOSE k \in 1..Len(ws) : HasAt(t, p, ws[k]) /\ \A j \in 1..(k - 1) : ~HasAt(t, p, ws[j])]

Min(S) == CHOOSE x \in S : \A y \in S : x <= y

Max(S) == CHOOSE x \in S : \A y \in S : x >= y

\* str.strip()
strip(t) ==
    LET keep == { i \in 1..Len(t) : t[i] \notin Space }
    IN  IF keep = {} THEN << >> ELSE SubSeq(t, Min(keep), Max(keep))

\* str.split(',')[0]: split always yields at least one part
first_part(t) ==
    LET commas == { i \in 1..Len(t) : t[i] = "," }
    IN  IF commas = {} THEN t ELSE SubSeq(t, 1, Min(commas) - 1)

-----------------------------------------------------------------------------
(* affiliations.py: AffiliationDetector                                    *)

ACADEMIC_KEYWORDS ==
    << <<"u","n","i","v","e","r","s","i","t","y">>,
       <<"c","o","l","l","e","g","e">>,
       <<"i","n","s","t","i","t","u","t","e">>,
       <<"s","c","h","o","o","l">>,
       <<"a","c","a","d","e","m","y">>,
       <<"h","o","s","p","i","t","a","l">>,
       <<"m","e","d","i","c","a","l"," ","c","e","n","t","e","r">>,
       <<"c","l","i","n","i","c">>,
       <<"f","o","u","n","d","a","t","i","o","n">>,
       <<"l","a","b","o","r","a","t","o","r","y">>,
       <<"l","a","b">>,
       <<"c","e","n","t","e","r"," ","f","o","r">>,
       <<"d","e","p","a","r","t","m","e","n","t"," ","o","f">>,
       <<"f","a","c","u","l","t","y">>,
       <<"d","i","v","i","s","i","o","n"," ","o","f">>,
       <<"n","a","t","i","o","n","a","l">>,
       <<"f","e","d","e","r","a","l">>,
       <<"m","i","n","i","s","t","r","y">>,
       <<"g","o","v","e","r","n","m","e","n","t">>,
       <<"a","s","s","o","c","i","a","t","i","o","n">>,
       <<"s","o","c","i","e","t","y">>,
       <<"o","r","g","a","n","i","z","a","t","i","o","n">> >>

\* the company keywords without "inc", the lower-cased legal suffix Inc
COMPANY_KEYWORDS_without_inc ==
    << <<"p","h","a","r","m","a">>,
       <<"b","i","o","t","e","c","h">>,
       <<"t","h","e","r","a","p","e","u","t","i","c","s">>,
       <<"b","i","o","s","c","i","e","n","c","e","s">>,
       <<"l","a","b","o","r","a","t","o","r","i","e","s">>,
       <<"c","o","r","p">>,
       <<"l","l","c">>,
       <<"l","t","d">>,
       <<"c","o">>,
       <<"c","o","m","p","a","n","y">>,
       <<"g","m","b","h">>,
       <<"a","g">>,
       <<"s","a">>,
       <<"b","v">>,
       <<"p","l","c">>,
       <<"b","i","o","p","h","a","r","m","a","c","e","u","t","i","c","a","l">>,
       <<"p","h","a","r","m","a","c","e","u","t","i","c","a","l">>,
       <<"d","r","u","g">>,
       <<"m","e","d","i","c","i","n","e">>,
       <<"h","e","a","l","t","h">> >>

COMPANY_KEYWORDS ==
    << <<"p","h","a","r","m","a">>,
       <<"b","i","o","t","e","c","h">>,
       <<"t","h","e","r","a","p","e","u","t","i","c","s">>,
       <<"b","i","o","s","c","i","e","n","c","e","s">>,
       <<"l","a","b","o","r","a","t","o","r","i","e","s">>,
       <<"i","n","c">>,
       <<"c","o","r","p">>,
       <<"l","l","c">>,
       <<"l","t","d">>,
       <<"c","o">>,
       <<"c","o","m","p","a","n","y">>,
       <<"g","m","b","h">>,
       <<"a","g">>,
       <<"s","a">>,
       <<"b","v">>,
       <<"p","l","c">>,
       <<"b","i","o","p","h","a","r","m","a","c","e","u","t","i","c","a","l">>,
       <<"p","h","a","r","m","a","c","e","u","t","i","c","a","l">>,
       <<"d","r","u","g">>,
       <<"m","e","d","i","c","i","n","e">>,
       <<"h","e","a","l","t","h">> >>

\* the alternation Inc|Corp|LLC|Ltd|GmbH|AG|SA|BV|PLC of the three patterns
LEGAL_SUFFIXES ==
    << <<"I","n","c">>,
       <<"C","o","r","p">>,
       <<"L","L","C">>,
       <<"L","t","d">>,
       <<"G","m","b","H">>,
       <<"A","G">>,
       <<"S","A">>,
       <<"B","V">>,
       <<"P","L","C">> >>

\* the alternation company|corporation|inc|corp|llc|ltd of the end-of-text pattern
CORPORATE_WORDS ==
    << <<"c","o","m","p","a","n","y">>,
       <<"c","o","r","p","o","r","a","t","i","o","n">>,
       <<"i","n","c">>,
       <<"c","o","r","p">>,
       <<"l","l","c">>,
       <<"l","t","d">> >>

\* any(k in text for k in keywords)
HasKeyword(text, keywords) == \E k \in 1..Len(keywords) : Contains(text, keywords[k])

\* \s* from any position of P: the positions a run of whitespace can end at
SkipSpaces(t, P) ==
    { q \in 1..(Len(t) + 1) : \E p \in P : p <= q /\ \A i \in p..(q - 1) : t[i] \in Space }

\* \s+ from any position of P
SkipSpaces1(t, P) == { q \in SkipSpaces(t, P) : \E p \in P : p < q /\ \A i \in p..(q - 1) : t[i] \in Space }

\* [A-Z][a-z]+ from any position of P
CapWord(t, P) ==
    { q \in 1..(Len(t) + 1) :
        \E p \in P : q >= p + 2 /\ At(t, p) \in Upper /\ \A i \in (p + 1)..(q - 1) : t[i] \in Lower }

\* (?:\s+[A-Z][a-z]+)* from any position of P
RECURSIVE MoreCapWords(_, _)
MoreCapWords(t, P) ==
    LET N == P \cup CapWord(t, SkipSpaces1(t, P))
    IN  IF N = P THEN P ELSE MoreCapWords(t, N)

\* ,? from any position of P
OptComma(t, P) == P \cup { p + 1 : p \in { q \in P : At(t, q) = "," } }

\* re.search(r'^\s*[A-Z][a-z]+(?:\s+[A-Z][a-z]+)*\s*,?\s*(?:Inc|...|PLC)', affiliation)
company_name_pattern(t) ==
    LET words == MoreCapWords(t, CapWord(t, SkipSpaces(t, {1})))
        ends  == SkipSpaces(t, OptComma(t, SkipSpaces(t, words)))
    IN  \E p \in ends : AnyAt(t, p, LEGAL_SUFFIXES)

\* re.search(r'(?:company|corporation|inc|corp|llc|ltd)\s*$', affiliation_lower)
corporate_word_at_end(t) ==
    \E p \in 1..Len(t) : \E k \in 1..Len(CORPORATE_WORDS) :
        /\ HasAt(t, p, CORPORATE_WORDS[k])
        /\ \A i \in (p + Len(CORPORATE_WORDS[k]))..Len(t) : t[i] \in Space

\* re.search(r'(?:Inc|...|PLC)\.?(?:\s|$)', affiliation)
legal_suffix_pattern(t) ==
    \E p \in 1..Len(t) : \E k \in 1..Len(LEGAL_SUFFIXES) :
        /\ HasAt(t, p, LEGAL_SUFFIXES[k])
        /\ LET e == p + Len(LEGAL_SUFFIXES[k])
           IN  \/ e > Len(t)
               \/ t[e] \in Space
               \/ t[e] = "." /\ (e + 1 > Len(t) \/ t[e + 1] \in Space)

\* is_company_affiliation with the keywords looked up in the text as written,
\* not in its lower-cased copy
is_company_affiliation_case_sensitive(text) ==
    IF text = << >> THEN FALSE
    ELSE IF HasKeyword(text, COMPANY_KEYWORDS)
         THEN IF HasKeyword(text, ACADEMIC_KEYWORDS)
              THEN company_name_pattern(text) \/ corporate_word_at_end(lower(text))
              ELSE TRUE
         ELSE legal_suffix_pattern(text)

\* is_company_affiliation with an academic keyword deciding at once, the two
\* patterns never tried
is_company_affiliation_academic_first(text) ==
    IF text = << >> THEN FALSE
    ELSE IF HasKeyword(lower(text), COMPANY_KEYWORDS)
         THEN ~HasKeyword(lower(text), ACADEMIC_KEYWORDS)
         ELSE legal_suffix_pattern(text)

\* is_company_affiliation that answers True when no company keyword is found
is_company_affiliation_default_true(text) ==
    IF text = << >> THEN FALSE
    ELSE IF HasKeyword(lower(text), COMPANY_KEYWORDS)
         THEN IF HasKeyword(lower(text), ACADEMIC_KEYWORDS)
              THEN company_name_pattern(text) \/ corporate_word_at_end(lower(text))
              ELSE TRUE
         ELSE TRUE

\* AffiliationDetector.is_company_affiliation: the first company keyword found
\* decides; with it the first academic keyword found decides by the two patterns
is_company_affiliation(text) ==
    IF text = << >> THEN FALSE
    ELSE LET affiliation_lower == lower(text)
         IN  IF HasKeyword(affiliation_lower, COMPANY_KEYWORDS)
             THEN IF HasKeyword(affiliation_lower, ACADEMIC_KEYWORDS)
                  THEN IF company_name_pattern(text) THEN TRUE
                       ELSE IF corporate_word_at_end(affiliation_lower) THEN TRUE
                       ELSE FALSE
                  ELSE TRUE
             ELSE legal_suffix_pattern(text)

\* [a-zA-Z0-9\s]
NameChar(c) == c \in Letter \cup Digit \cup Space

\* the last positions e of a run [a-zA-Z0-9\s]+ that starts after the capital at
\* i and is followed by a legal suffix
NameRunEnds(t, i) ==
    { e \in (i + 1)..Len(t) :
        /\ \A j \in (i + 1)..e : NameChar(t[j])
        /\ AnyAt(t, e + 1, LEGAL_SUFFIXES) }

\* the start positions of r'([A-Z][a-zA-Z0-9\s]+(?:Inc|...|PLC)\.?)'
NameStarts(t) == { i \in 1..Len(t) : t[i] \in Upper /\ NameRunEnds(t, i) # {} }

\* re.search(...).group(1): leftmost start, the run greedy, the period greedy
company_match(t) ==
    LET i   == Min(NameStarts(t))
        e   == Max(NameRunEnds(t, i))
        end == e + Len(FirstAt(t, e + 1, LEGAL_SUFFIXES))
    IN  SubSeq(t, i, IF At(t, end + 1) = "." THEN end + 1 ELSE end)

\* extract_company_name without the fallback to the text before the first comma
extract_company_name_pattern_only(text) ==
    IF text = << >> THEN None
    ELSE IF NameStarts(text) # {} THEN Some(strip(company_match(text)))
    ELSE None

\* AffiliationDetector.extract_company_name
extract_company_name(text) ==
    IF text = << >> THEN None
    ELSE IF NameStarts(text) # {} THEN Some(strip(company_match(text)))
    ELSE IF is_company_affiliation(text) THEN Some(strip(first_part(text)))
    ELSE None

\* [a-zA-Z0-9._%+-]
LocalChar(c) == c \in Letter \cup Digit \cup { ".", "_", "%", "+", "-" }

\* [a-zA-Z0-9.-]
DomainChar(c) == c \in Letter \cup Digit \cup { ".", "-" }

\* the position of the @ that ends the run [a-zA-Z0-9._%+-]+ starting at i, if any
AtSign(t, i) ==
    { j \in (i + 1)..Len(t) : t[j] = "@" /\ \A x \in i..(j - 1) : LocalChar(t[x]) }

\* the last positions d of a run [a-zA-Z0-9.-]+ after the @ at j that is
\* followed by \.[a-zA-Z]{2,}
DomainEnds(t, j) ==
    { d \in (j + 1)..Len(t) :
        /\ \A x \in (j + 1)..d : DomainChar(t[x])
        /\ At(t, d + 1) = "."
        /\ At(t, d + 2) \in Letter
        /\ At(t, d + 3) \in Letter }

\* the start positions of r'[a-zA-Z0-9._%+-]+@[a-zA-Z0-9.-]+\.[a-zA-Z]{2,}'
EmailStarts(t) ==
    { i \in 1..Len(t) : \E j \in AtSign(t, i) : DomainEnds(t, j) # {} }

\* re.search(...).group(0): leftmost start, each repetition greedy
email_match(t) ==
    LET i   == Min(EmailStarts(t))
        j   == The(AtSign(t, i))
        d   == Max(DomainEnds(t, j))
        end == Max({ e \in (d + 3)..Len(t) : \A x \in (d + 2)..e : t[x] \in Letter })
    IN  SubSeq(t, i, end)

\* AffiliationDetector.extract_email
extract_email(text) ==
    IF text = << >> THEN None
    ELSE IF EmailStarts(text) # {} THEN Some(email_match(text))
    ELSE None

-----------------------------------------------------------------------------
(* parser.py: PubMedParser                                                 *)
(*                                                                         *)
(* An article element is a record of what the XPath queries read:          *)
(*   ArticleTitle  Optional text of .//ArticleTitle (the text << >> is an  *)
(*                 element without text)                                   *)
(*   PubDate       Optional record of the Optional texts Year, Month, Day  *)
(*   AuthorList    Optional sequence of Author records, in document order  *)
(* An Author record holds the Optional texts LastName, ForeName, Initials, *)
(* the Optional attributes ValidYN and CorrespondingAuthor, and the texts  *)
(* of its AffiliationInfo/Affiliation elements in document order.  The     *)
(* article None stands for a value that cannot be traversed at all.        *)

UNKNOWN_TITLE == <<"U","n","k","n","o","w","n"," ","T","i","t","l","e">>

UNKNOWN_DATE == <<"U","n","k","n","o","w","n"," ","D","a","t","e">>

NO_NON_ACADEMIC_AUTHORS == <<"N","o"," ","N","o","n","-","A","c","a","d","e","m","i","c"," ","A","u","t","h","o","r","s">>

NO_COMPANY_AFFILIATIONS == <<"N","o"," ","C","o","m","p","a","n","y"," ","A","f","f","i","l","i","a","t","i","o","n","s">>

EMAIL_NOT_FOUND == <<"E","m","a","i","l"," ","N","o","t"," ","F","o","u","n","d">>

PUBMED_ID_NOT_FOUND == <<"P","u","b","M","e","d"," ","I","D"," ","N","o","t"," ","F","o","u","n","d">>

\* the placeholders of extract_publication_date
XXXX == <<"X","X","X","X">>

XX == <<"X","X">>

\* the abbreviations %b of strptime matches, whatever the case
MONTH_ABBR ==
    << <<"j","a","n">>,
       <<"f","e","b">>,
       <<"m","a","r">>,
       <<"a","p","r">>,
       <<"m","a","y">>,
       <<"j","u","n">>,
       <<"j","u","l">>,
       <<"a","u","g">>,
       <<"s","e","p">>,
       <<"o","c","t">>,
       <<"n","o","v">>,
       <<"d","e","c">> >>

\* elem.text if elem is not None and elem.text else default
text_or(elem, default) == IF Truthy(elem) THEN The(elem) ELSE default

\* extract_title without the test of title_elem.text
extract_title_no_text_test(art) ==
    IF art.ArticleTitle # None THEN The(art.ArticleTitle) ELSE UNKNOWN_TITLE

\* PubMedParser.extract_title
extract_title(art) == text_or(art.ArticleTitle, UNKNOWN_TITLE)

\* str.isalpha(): not empty and letters only
isalpha(t) == t # << >> /\ \A i \in 1..Len(t) : t[i] \in Letter

\* str(n).zfill(2) for the month numbers 1..12
zfill2(n) == << DigitSeq[(n \div 10) + 1], DigitSeq[(n % 10) + 1] >>

\* datetime.strptime(t, "%b").month, None for the ValueError
strptime_month(t) ==
    LET hit == { m \in 1..Len(MONTH_ABBR) : MONTH_ABBR[m] = lower(t) }
    IN  IF hit = {} THEN None ELSE Some(The(hit))

\* the month text after the try block that handles month names
month_name_handled(month_str) ==
    IF isalpha(month_str)
    THEN LET m == strptime_month(SubSeq(month_str, 1, IF Len(month_str) < 3 THEN Len(month_str) ELSE 3))
         IN  IF m = None THEN XX ELSE zfill2(The(m))
    ELSE month_str

\* format_pub_date with `or` for `and` in the first test: a Day is enough
format_pub_date_month_or_day(pd) ==
    LET year_str  == text_or(pd.Year, XXXX)
        month_str == month_name_handled(text_or(pd.Month, XX))
        day_str   == text_or(pd.Day, XX)
    IN  IF year_str # XXXX
        THEN IF month_str # XX \/ day_str # XX
             THEN year_str \o <<"-">> \o month_str \o <<"-">> \o day_str
             ELSE year_str
        ELSE UNKNOWN_DATE

\* the date text of a PubDate element
format_pub_date(pd) ==
    LET year_str  == text_or(pd.Year, XXXX)
        month_str == month_name_handled(text_or(pd.Month, XX))
        day_str   == text_or(pd.Day, XX)
    IN  IF year_str # XXXX
        THEN IF month_str # XX /\ day_str # XX
             THEN year_str \o <<"-">> \o month_str \o <<"-">> \o day_str
             ELSE IF month_str # XX THEN year_str \o <<"-">> \o month_str
             ELSE year_str
        ELSE UNKNOWN_DATE

\* PubMedParser.extract_publication_date
extract_publication_date(art) ==
    IF art.PubDate = None THEN UNKNOWN_DATE ELSE format_pub_date(The(art.PubDate))

\* article.findall(".//Author"): the Author elements in document order
Authors(art) == IF art.AuthorList = None THEN << >> ELSE The(art.AuthorList)

\* the display name of an author that has a LastName
display_name(author) ==
    IF Truthy(author.ForeName) THEN The(author.ForeName) \o <<" ">> \o The(author.LastName)
    ELSE IF Truthy(author.Initials) THEN The(author.Initials) \o <<" ">> \o The(author.LastName)
    ELSE The(author.LastName)

\* the tuple built from the last Affiliation element of the author instead of
\* the first one
author_entry_last_affiliation(author) ==
    LET affiliation_text == IF author.Affiliations = << >> THEN << >>
                            ELSE author.Affiliations[Len(author.Affiliations)]
    IN  [ name        |-> display_name(author),
          affiliation |-> affiliation_text,
          email       |-> IF affiliation_text # << >> THEN extract_email(affiliation_text) ELSE None ]

\* the tuple (name, affiliation, email) appended for an author that has a LastName
author_entry(author) ==
    LET affiliation_text == IF author.Affiliations = << >> THEN << >> ELSE Head(author.Affiliations)
    IN  [ name        |-> display_name(author),
          affiliation |-> affiliation_text,
          email       |-> IF affiliation_text # << >> THEN extract_email(affiliation_text) ELSE None ]

\* the loop over author_list.findall("Author")
RECURSIVE entries_of(_)
entries_of(authors) ==
    IF authors = << >> THEN << >>
    ELSE IF Truthy(Head(authors).LastName)
         THEN << author_entry(Head(authors)) >> \o entries_of(Tail(authors))
         ELSE entries_of(Tail(authors))

\* PubMedParser.extract_author_affiliations
extract_author_affiliations(art) ==
    IF art.AuthorList = None THEN << >> ELSE entries_of(The(art.AuthorList))

\* the first email of a sequence of affiliation texts, None when there is none
RECURSIVE first_email(_)
first_email(texts) ==
    IF texts = << >> THEN None
    ELSE IF Head(texts) # << >> /\ Truthy(extract_email(Head(texts)))
         THEN extract_email(Head(texts))
         ELSE first_email(Tail(texts))

\* author.get("ValidYN") == "Y" and author.get("CorrespondingAuthor") == "Y"
is_corresponding(author) == author.ValidYN = Some(<<"Y">>) /\ author.CorrespondingAuthor = Some(<<"Y">>)

\* the affiliation texts the first loop of extract_corresponding_author_email reads
RECURSIVE corresponding_texts(_)
corresponding_texts(authors) ==
    IF authors = << >> THEN << >>
    ELSE (IF is_corresponding(Head(authors)) THEN Head(authors).Affiliations ELSE << >>)
         \o corresponding_texts(Tail(authors))

\* article.findall(".//AffiliationInfo/Affiliation"): every affiliation text
RECURSIVE all_texts(_)
all_texts(authors) ==
    IF authors = << >> THEN << >>
    ELSE Head(authors).Affiliations \o all_texts(Tail(authors))

\* extract_corresponding_author_email without its first loop: the first email of
\* the document, whoever carries it
extract_corresponding_author_email_scan_only(art) == first_email(all_texts(Authors(art)))

\* PubMedParser.extract_corresponding_author_email
extract_corresponding_author_email(art) ==
    LET marked == first_email(corresponding_texts(Authors(art)))
    IN  IF marked # None THEN marked ELSE first_email(all_texts(Authors(art)))

\* is_non_academic without the classification: any affiliation counts
is_non_academic_any_affiliation(entry) == entry.affiliation # << >>

\* the entries parse_article's loop keeps: a non-empty affiliation that is a company's
is_non_academic(entry) == entry.affiliation # << >> /\ is_company_affiliation(entry.affiliation)

\* non_academic_authors after parse_article's loop
RECURSIVE non_academic_names(_)
non_academic_names(entries) ==
    IF entries = << >> THEN << >>
    ELSE (IF is_non_academic(Head(entries)) THEN << Head(entries).name >> ELSE << >>)
         \o non_academic_names(Tail(entries))

\* company_affiliations when the name is extracted from every entry's
\* affiliation, outside the test that appends the author
company_names_of_all_entries(entries) ==
    { The(extract_company_name(entries[i].affiliation)) :
        i \in { j \in 1..Len(entries) : Truthy(extract_company_name(entries[j].affiliation)) } }

\* company_affiliations after parse_article's loop
company_names(entries) ==
    { The(extract_company_name(entries[i].affiliation)) :
        i \in { j \in 1..Len(entries) :
                  is_non_academic(entries[j]) /\ Truthy(extract_company_name(entries[j].affiliation)) } }

\* sep.join(parts)
RECURSIVE join(_, _)
join(sep, parts) ==
    IF parts = << >> THEN << >>
    ELSE IF Len(parts) = 1 THEN Head(parts)
    ELSE Head(parts) \o sep \o join(sep, Tail(parts))

SEP == <<";"," ">>

\* the orders in which a set can be iterated: Python leaves the order of a set
\* of str unspecified, so join may see any of them
Orders(S) ==
    { s \in [1..Cardinality(S) -> S] : \A i, j \in 1..Cardinality(S) : i # j => s[i] # s[j] }

\* the dict parse_article returns, for one iteration order of the company set
article_record(id, title, publication_date, names, order, mail) ==
    [ PubmedID                 |-> IF id # << >> THEN id ELSE PUBMED_ID_NOT_FOUND,
      Title                    |-> title,
      PublicationDate          |-> publication_date,
      NonAcademicAuthors       |-> IF names # << >> THEN join(SEP, names) ELSE NO_NON_ACADEMIC_AUTHORS,
      CompanyAffiliations      |-> IF order # << >> THEN join(SEP, order) ELSE NO_COMPANY_AFFILIATIONS,
      CorrespondingAuthorEmail |-> IF Truthy(mail) THEN The(mail) ELSE EMAIL_NOT_FOUND ]

\* PubMedParser.parse_article: the records it can return for an article element
parse_article(id, art) ==
    LET entries == extract_author_affiliations(art)
    IN  { article_record(id, extract_title(art), extract_publication_date(art),
                         non_academic_names(entries), order,
                         extract_corresponding_author_email(art)) :
            order \in Orders(company_names(entries)) }

\* parse_article raises (AttributeError on article.find) when the article is no element
parse_raises(art) == art = None

-----------------------------------------------------------------------------
(* cli.py                                                                  *)

\* filter_company_affiliated_papers: paper.get("NonAcademicAuthors") is true of
\* every str but the empty one
filter_company_affiliated_papers(ps) ==
    [ id \in { k \in DOMAIN ps : ps[k].NonAcademicAuthors # << >> } |-> ps[id] ]

\* papers[pmid] = paper_info
dict_set(d, key, value) == [ k \in (DOMAIN d) \cup { key } |-> IF k = key THEN value ELSE d[k] ]

-----------------------------------------------------------------------------
(* Inputs                                                                  *)

\* the number of fragments of a text handed to the classifier
MaxFrags == 3

\* the number of Author elements of an article
MaxAuthors == 2

\* the number of articles of a batch
MaxBatch == 3

Fragments ==
    { <<"P","f","i","z","e","r">>,
      <<" ","I","n","c">>,
      <<".">>,
      <<",">>,
      <<" ">>,
      <<"U","n","i","v","e","r","s","i","t","y">>,
      <<" ","c","o","m","p","a","n","y">>,
      <<"p","h","a","r","m","a">>,
      <<"D","e","p","t">> }

RECURSIVE TextsOf(_)
TextsOf(n) ==
    IF n = 0 THEN { << >> }
    ELSE LET shorter == TextsOf(n - 1)
         IN  shorter \cup { t \o f : t \in shorter, f \in Fragments }

Texts == TextsOf(MaxFrags)

\* affiliation texts of the articles
ACADEMIC_MAIL == <<"L","a","b"," ","a","@","b",".","i","o">>

COMPANY_MAIL == <<"A","c","m","e"," ","I","n","c"," ","c","@","d",".","i","o">>

ACADEMIC_PLAIN == <<"S","t","a","t","e"," ","U","n","i","v","e","r","s","i","t","y">>

KEYWORD_ONLY == <<"p","h","a","r","m","a">>

COMMA_FIRST == <<","," ","I","n","c">>

EMBEDDED_COMPANY == <<"L","a","b",","," ","A","c","m","e"," ","I","n","c",".">>

YES == Some(<<"Y">>)

NO == Some(<<"N">>)

Author(last, fore, initials, valid, corresponding, affiliations) ==
    [ LastName |-> last, ForeName |-> fore, Initials |-> initials, ValidYN |-> valid,
      CorrespondingAuthor |-> corresponding, Affiliations |-> affiliations ]

AuthorPool ==
    { Author(Some(<<"D","o","e">>), Some(<<"J">>), None, None, None, << ACADEMIC_MAIL >>),
      Author(Some(<<"R","o","e">>), None, Some(<<"R">>), YES, YES, << COMPANY_MAIL >>),
      Author(Some(<<"P","o","e">>), None, None, YES, YES, << KEYWORD_ONLY >>),
      Author(Some(<<"L","e","e">>), None, None, YES, YES, << << >>, ACADEMIC_MAIL >>),
      Author(Some(<<"K","i","m">>), Some(<<"K">>), Some(<<"K">>), NO, YES, << COMPANY_MAIL >>),
      Author(None, Some(<<"A">>), None, YES, None, << COMPANY_MAIL >>),
      Author(Some(<<"R","a","y">>), None, None, None, None, << ACADEMIC_PLAIN, KEYWORD_ONLY >>),
      Author(Some(<<"F","o","x">>), None, None, None, None, << COMMA_FIRST >>),
      Author(Some(<< >>), Some(<<"B">>), None, None, None, << KEYWORD_ONLY >>),
      Author(Some(<<"U","n","e">>), None, None, None, None, << >>),
      Author(Some(<<"O","r","r">>), None, None, None, None, << EMBEDDED_COMPANY >>) }

RECURSIVE AuthorListsOf(_)
AuthorListsOf(n) ==
    IF n = 0 THEN { << >> }
    ELSE LET shorter == AuthorListsOf(n - 1)
         IN  shorter \cup { l \o << a >> : l \in shorter, a \in AuthorPool }

PubDate(year, month, day) == [ Year |-> year, Month |-> month, Day |-> day ]

YearPool == { None, Some(<< >>), Some(<<"2","0","2","3">>) }

MonthPool ==
    { None, Some(<< >>), Some(<<"J","a","n">>), Some(<<"d","e","c">>), Some(<<"J","a","n","u","a","r","y">>), Some(<<"S","e","p","t">>), Some(<<"S","p","r","i","n","g">>), Some(<<"J","a">>), Some(<<"X","X">>), Some(<<"3">>), Some(<<"1","1">>), Some(<<"J","a","n","-","F","e","b">>) }

DayPool == { None, Some(<< >>), Some(<<"1","5">>), Some(<<"7">>) }

PubDatePool == { None } \cup { Some(PubDate(y, m, d)) : y \in YearPool, m \in MonthPool, d \in DayPool }

TITLE == <<"T","r","i","a","l">>

FULL_DATE == Some(PubDate(Some(<<"2","0","2","3">>), Some(<<"J","a","n">>), Some(<<"1","5">>)))

Article(title, date, authors) == [ ArticleTitle |-> title, PubDate |-> date, AuthorList |-> authors ]

\* articles whose date varies
DatedArticles == { Article(Some(TITLE), d, None) : d \in PubDatePool }

\* articles whose authors vary
AuthoredArticles == { Article(Some(TITLE), FULL_DATE, Some(l)) : l \in AuthorListsOf(MaxAuthors) }

\* articles whose title, date and author list are absent or empty in any combination
HeaderArticles ==
    { Article(t, d, l) :
        t \in { None, Some(<< >>), Some(TITLE) },
        d \in { None, Some(PubDate(None, None, None)), Some(PubDate(Some(<< >>), None, Some(<<"7">>))), FULL_DATE },
        l \in { None, Some(<< >>) } \cup { Some(<< a >>) : a \in AuthorPool } }

PmidPool == { << >>, <<"7">> }

\* the articles of a batch: an article that cannot be traversed, one with an
\* academic author only and two with company authors
BatchPool ==
    { None,
      Some(Article(Some(TITLE), FULL_DATE,
                   Some(<< Author(Some(<<"D","o","e">>), None, None, None, None, << ACADEMIC_MAIL >>) >>))),
      Some(Article(Some(TITLE), FULL_DATE,
                   Some(<< Author(Some(<<"R","o","e">>), None, None, YES, YES, << COMPANY_MAIL >>) >>))),
      Some(Article(None, None,
                   Some(<< Author(Some(<<"P","o","e">>), None, None, None, None, << KEYWORD_ONLY >>),
                           Author(Some(<<"F","o","x">>), None, None, None, None, << COMPANY_MAIL >>) >>))) }

\* the pmid of the i-th item: the keys of a dict are distinct
PmidOf(i) == << DigitSeq[i + 1] >>

Batches ==
    UNION { { [ i \in 1..n |-> << PmidOf(i), arts[i] >> ] : arts \in [1..n -> BatchPool] } :
            n \in 0..MaxBatch }

-----------------------------------------------------------------------------
(* The classifier applied to a text                                        *)

NoText == affiliation = << >> /\ verdict = {} /\ company_name = {}

NoArticle ==
    /\ pmid = << >> /\ article = None /\ date_str = {} /\ author_affiliations = {}
    /\ corresponding_email = {} /\ non_academic_authors = << >>
    /\ company_affiliations = {} /\ record = {}

NoBatch == articles = << >> /\ idx = 0 /\ papers = << >> /\ filtered_papers = {}

InitClassify ==
    /\ pc = "classify"
    /\ affiliation \in Texts
    /\ verdict = {}
    /\ company_name = {}
    /\ NoArticle /\ NoBatch /\ errors = << >>

IsCompanyAffiliation ==
    /\ pc = "classify"
    /\ verdict = {}
    /\ verdict' = { is_company_affiliation(affiliation) }
    /\ UNCHANGED << pc, affiliation, company_name, pmid, article, date_str,
                    author_affiliations, corresponding_email, non_academic_authors,
                    company_affiliations, record, articles, idx, papers, errors,
                    filtered_papers >>

ExtractCompanyName ==
    /\ pc = "classify"
    /\ company_name = {}
    /\ company_name' = { extract_company_name(affiliation) }
    /\ UNCHANGED << pc, affiliation, verdict, pmid, article, date_str,
                    author_affiliations, corresponding_email, non_academic_authors,
                    company_affiliations, record, articles, idx, papers, errors,
                    filtered_papers >>

NextClassify == IsCompanyAffiliation \/ ExtractCompanyName

SpecClassify == InitClassify /\ [][NextClassify]_vars

-----------------------------------------------------------------------------
(* extract_publication_date applied to an article                          *)

InitDate ==
    /\ pc = "date"
    /\ pmid = <<"7">>
    /\ article \in { Some(a) : a \in DatedArticles }
    /\ date_str = {} /\ author_affiliations = {} /\ corresponding_email = {}
    /\ non_academic_authors = << >> /\ company_affiliations = {} /\ record = {}
    /\ NoText /\ NoBatch /\ errors = << >>

ExtractPublicationDate ==
    /\ pc = "date"
    /\ date_str = {}
    /\ date_str' = { extract_publication_date(The(article)) }
    /\ UNCHANGED << pc, affiliation, verdict, company_name, pmid, article,
                    author_affiliations, corresponding_email, non_academic_authors,
                    company_affiliations, record, articles, idx, papers, errors,
                    filtered_papers >>

NextDate == ExtractPublicationDate

SpecDate == InitDate /\ [][NextDate]_vars

-----------------------------------------------------------------------------
(* parse_article applied to an article, statement by statement             *)

InitParse ==
    /\ pc = "parse"
    /\ \/ pmid = <<"7">> /\ article \in { Some(a) : a \in AuthoredArticles }
       \/ pmid \in PmidPool /\ article \in { None } \cup { Some(a) : a \in HeaderArticles }
    /\ date_str = {} /\ author_affiliations = {} /\ corresponding_email = {}
    /\ non_academic_authors = << >> /\ company_affiliations = {} /\ record = {}
    /\ NoText /\ NoBatch /\ errors = << >>

\* the first statement raises: the article is no element
ParseRaises ==
    /\ pc = "parse"
    /\ parse_raises(article)
    /\ errors' = << pmid >>
    /\ pc' = "raised"
    /\ UNCHANGED << affiliation, verdict, company_name, pmid, article, date_str,
                    author_affiliations, corresponding_email, non_academic_authors,
                    company_affiliations, record, articles, idx, papers, filtered_papers >>

\* author_affiliations = cls.extract_author_affiliations(article)
ExtractAuthorAffiliations ==
    /\ pc = "parse"
    /\ ~parse_raises(article)
    /\ author_affiliations' = { extract_author_affiliations(The(article)) }
    /\ pc' = "entries"
    /\ UNCHANGED << affiliation, verdict, company_name, pmid, article, date_str,
                    corresponding_email, non_academic_authors, company_affiliations,
                    record, articles, idx, papers, errors, filtered_papers >>

\* the loop over author_affiliations
ClassifyAuthors ==
    /\ pc = "entries"
    /\ non_academic_authors' = non_academic_names(The(author_affiliations))
    /\ company_affiliations' = company_names(The(author_affiliations))
    /\ pc' = "classified"
    /\ UNCHANGED << affiliation, verdict, company_name, pmid, article, date_str,
                    author_affiliations, corresponding_email, record, articles, idx,
                    papers, errors, filtered_papers >>

\* cls.extract_corresponding_author_email(article)
ExtractCorrespondingAuthorEmail ==
    /\ pc = "classified"
    /\ corresponding_email' = { extract_corresponding_author_email(The(article)) }
    /\ pc' = "email"
    /\ UNCHANGED << affiliation, verdict, company_name, pmid, article, date_str,
                    author_affiliations, non_academic_authors, company_affiliations,
                    record, articles, idx, papers, errors, filtered_papers >>

\* the return statement: the set is joined in one of its iteration orders
ReturnRecord ==
    /\ pc = "email"
    /\ \E order \in Orders(company_affiliations) :
          record' = { article_record(pmid, extract_title(The(article)),
                                     extract_publication_date(The(article)),
                                     non_academic_authors, order, The(corresponding_email)) }
    /\ pc' = "returned"
    /\ UNCHANGED << affiliation, verdict, company_name, pmid, article, date_str,
                    author_affiliations, corresponding_email, non_academic_authors,
                    company_affiliations, articles, idx, papers, errors, filtered_papers >>

NextParse ==
    \/ ParseRaises
    \/ ExtractAuthorAffiliations
    \/ ClassifyAuthors
    \/ ExtractCorrespondingAuthorEmail
    \/ ReturnRecord

SpecParse == InitParse /\ [][NextParse]_vars

-----------------------------------------------------------------------------
(* cli.main: the batch loop, then the filter                               *)

Init ==
    /\ pc = "loop"
    /\ articles \in Batches
    /\ idx = 0
    /\ papers = << >>
    /\ errors = << >>
    /\ filtered_papers = {}
    /\ NoText /\ NoArticle

\* the loop with the try statement around it, not in it: the first article that
\* raises ends the loop
ParseNext_try_around_loop ==
    /\ pc = "loop"
    /\ idx < Len(articles)
    /\ LET id  == articles[idx + 1][1]
           art == articles[idx + 1][2]
       IN  IF parse_raises(art)
           THEN /\ errors' = Append(errors, id)
                /\ idx' = Len(articles)
                /\ UNCHANGED papers
           ELSE /\ \E paper_info \in parse_article(id, The(art)) : papers' = dict_set(papers, id, paper_info)
                /\ idx' = idx + 1
                /\ UNCHANGED errors
    /\ UNCHANGED << pc, affiliation, verdict, company_name, pmid, article, date_str,
                    author_affiliations, corresponding_email, non_academic_authors,
                    company_affiliations, record, articles, filtered_papers >>

\* one iteration of the for loop: the try block, or its except branch
ParseNext ==
    /\ pc = "loop"
    /\ idx < Len(articles)
    /\ LET id  == articles[idx + 1][1]
           art == articles[idx + 1][2]
       IN  IF parse_raises(art)
           THEN /\ errors' = Append(errors, id)
                /\ UNCHANGED papers
           ELSE /\ \E paper_info \in parse_article(id, The(art)) : papers' = dict_set(papers, id, paper_info)
                /\ UNCHANGED errors
    /\ idx' = idx + 1
    /\ UNCHANGED << pc, affiliation, verdict, company_name, pmid, article, date_str,
                    author_affiliations, corresponding_email, non_academic_authors,
                    company_affiliations, record, articles, filtered_papers >>

\* the loop is over: filtered_papers = filter_company_affiliated_papers(papers)
FilterPapers ==
    /\ pc = "loop"
    /\ idx = Len(articles)
    /\ filtered_papers' = { filter_company_affiliated_papers(papers) }
    /\ pc' = "filtered"
    /\ UNCHANGED << affiliation, verdict, company_name, pmid, article, date_str,
                    author_affiliations, corresponding_email, non_academic_authors,
                    company_affiliations, record, articles, idx, papers, errors >>

Next == ParseNext \/ FilterPapers

Spec == Init /\ [][Next]_vars

-----------------------------------------------------------------------------
(* Properties of the classifier (SpecClassify)                             *)

HasCompanyKeyword(text) == HasKeyword(lower(text), COMPANY_KEYWORDS)

HasAcademicKeyword(text) == HasKeyword(lower(text), ACADEMIC_KEYWORDS)

HasLegalSuffix(text) == HasKeyword(text, LEGAL_SUFFIXES)

\* C1: a non-empty affiliation that contains a company keyword, whatever the
\* case, or a legal suffix Inc/Corp/LLC/Ltd/GmbH/AG/SA/BV/PLC, and that contains
\* no academic keyword, is classified as a company.
C1_CompanyKeywordAlone ==
    ( /\ verdict # {}
      /\ affiliation # << >>
      /\ HasCompanyKeyword(affiliation) \/ HasLegalSuffix(affiliation)
      /\ ~HasAcademicKeyword(affiliation) )
    => verdict = { TRUE }

\* a text with a legal suffix and no academic keyword has been classified
C1_Witness ==
    /\ verdict = { TRUE }
    /\ HasLegalSuffix(affiliation)
    /\ ~HasAcademicKeyword(affiliation)

\* C2: an affiliation that contains an academic keyword is classified as a
\* company exactly when it matches the named-entity + legal-suffix pattern or
\* ends with a corporate-suffix word followed by whitespace only.
C2_AcademicKeywordTieBreak ==
    ( verdict # {} /\ HasAcademicKeyword(affiliation) )
    => verdict = { company_name_pattern(affiliation) \/ corporate_word_at_end(lower(affiliation)) }

\* a text with an academic keyword has been classified as a company by the
\* corporate word at its end, the named-entity pattern not matching
C2_Witness ==
    /\ verdict = { TRUE }
    /\ HasAcademicKeyword(affiliation)
    /\ ~company_name_pattern(affiliation)

\* C3: the empty affiliation, and an affiliation with an academic keyword, no
\* company keyword and no legal suffix, is not classified as a company.
C3_AcademicOnly ==
    ( /\ verdict # {}
      /\ \/ affiliation = << >>
         \/ /\ HasAcademicKeyword(affiliation)
            /\ ~HasCompanyKeyword(affiliation)
            /\ ~HasLegalSuffix(affiliation) )
    => verdict = { FALSE }

\* a text with an academic keyword and no company keyword has been classified
C3_Witness ==
    /\ verdict = { FALSE }
    /\ HasAcademicKeyword(affiliation)
    /\ ~HasCompanyKeyword(affiliation)

\* C12: is_company_affiliation answers True only for a text in which a company
\* keyword occurs, case-insensitively; a text without company keyword, the
\* only kind that reaches the final legal-suffix scan, holds no match of that
\* scan and is answered False.
C12_TrueOnlyWithCompanyKeyword ==
    /\ verdict = { TRUE } => HasCompanyKeyword(affiliation)
    /\ ~HasCompanyKeyword(affiliation)
       => /\ ~legal_suffix_pattern(affiliation)
          /\ verdict \in { {}, { FALSE } }

\* a non-empty text without any keyword, with a capital and a period, has
\* reached the legal-suffix scan and has been answered False
C12_Witness ==
    /\ verdict = { FALSE }
    /\ ~HasCompanyKeyword(affiliation)
    /\ ~HasAcademicKeyword(affiliation)
    /\ \E i \in 1..Len(affiliation) : affiliation[i] \in Upper
    /\ \E i \in 1..Len(affiliation) : affiliation[i] = "."

-----------------------------------------------------------------------------
(* Properties of the corresponding-author email (SpecParse)                *)

\* the Author elements of the drawn article
TheAuthors == IF article = None \/ The(article).AuthorList = None THEN << >> ELSE The(The(article).AuthorList)

Flagged(a) == TheAuthors[a].ValidYN = { <<"Y">> } /\ TheAuthors[a].CorrespondingAuthor = { <<"Y">> }

\* the affiliation nodes <<author, affiliation>> whose text holds an email
MailNodes ==
    UNION { { << a, k >> : k \in { x \in 1..Len(TheAuthors[a].Affiliations) :
                                      extract_email(TheAuthors[a].Affiliations[x]) # None } } :
            a \in 1..Len(TheAuthors) }

FlaggedMailNodes == { n \in MailNodes : Flagged(n[1]) }

\* the first node of a non-empty set of nodes, in document order
FirstNode(S) == CHOOSE n \in S : \A m \in S : n[1] < m[1] \/ (n[1] = m[1] /\ n[2] <= m[2])

MailOf(n) == The(extract_email(TheAuthors[n[1]].Affiliations[n[2]]))

\* C4: the corresponding-author email is the first email of the affiliation
\* texts of the authors flagged ValidYN=Y and CorrespondingAuthor=Y, in document
\* order, when there is one; else the first email of all affiliation texts in
\* document order; and None only when no affiliation text holds an email.
C4_EmailFallbackChain ==
    corresponding_email # {}
    => IF FlaggedMailNodes # {} THEN corresponding_email = { { MailOf(FirstNode(FlaggedMailNodes)) } }
       ELSE IF MailNodes # {} THEN corresponding_email = { { MailOf(FirstNode(MailNodes)) } }
       ELSE corresponding_email = { None }

\* the email of a flagged author has been returned although an author that is
\* not flagged stands earlier in the document with another email
C4_Witness ==
    /\ corresponding_email # {}
    /\ \E m \in MailNodes, f \in FlaggedMailNodes :
          /\ m[1] < f[1] /\ ~Flagged(m[1]) /\ MailOf(m) # MailOf(f)
          /\ corresponding_email = { { MailOf(f) } }

-----------------------------------------------------------------------------
(* Properties of the publication date (SpecDate)                           *)

\* a sub-field of the drawn article's PubDate, None when the PubDate is absent
DateField(f) == IF The(article).PubDate = None THEN None ELSE The(The(article).PubDate)[f]

\* the Month the decision table sees: a month name becomes its two-digit number,
\* a Month that is alphabetic and no month name counts as absent
EffectiveMonth ==
    LET m == DateField("Month")
    IN  IF ~Truthy(m) THEN None
        ELSE IF \A i \in 1..Len(The(m)) : The(m)[i] \in Letter
             THEN LET n == { k \in 1..12 : MONTH_ABBR[k] = lower(SubSeq(The(m), 1, 3)) }
                  IN  IF Len(The(m)) < 3 \/ n = {} THEN None
                      ELSE Some(<< DigitSeq[(The(n) \div 10) + 1], DigitSeq[(The(n) % 10) + 1] >>)
             ELSE m

\* C5: the publication date is "Unknown Date" when Year is absent, whatever
\* Month and Day are; Year-Month-Day when the three are present; Year-Month when
\* Day is absent; Year alone when Month is absent, also when Day is present.  An
\* alphabetic Month counts as its two-digit number, or as absent when it is no
\* month name: Year 2023, Month Jan, Day 15 gives 2023-01-15.
C5_DateDecisionTable ==
    date_str # {}
    => LET year == DateField("Year")
           day  == DateField("Day")
       IN  /\ date_str =
                { IF ~Truthy(year) THEN UNKNOWN_DATE
                  ELSE IF EffectiveMonth # None /\ Truthy(day)
                       THEN The(year) \o <<"-">> \o The(EffectiveMonth) \o <<"-">> \o The(day)
                  ELSE IF EffectiveMonth # None
                       THEN The(year) \o <<"-">> \o The(EffectiveMonth)
                  ELSE The(year) }
           /\ ( /\ year = Some(<<"2","0","2","3">>)
                /\ DateField("Month") = Some(<<"J","a","n">>)
                /\ day = Some(<<"1","5">>) )
              => date_str = { <<"2","0","2","3","-","0","1","-","1","5">> }

\* the date of an article with a Year and a Day but no usable Month is the Year
C5_Witness ==
    /\ date_str # {}
    /\ Truthy(DateField("Year"))
    /\ Truthy(DateField("Day"))
    /\ Truthy(DateField("Month")) /\ EffectiveMonth = None
    /\ date_str = { The(DateField("Year")) }

-----------------------------------------------------------------------------
(* Properties of the record parse_article returns (SpecParse)              *)

\* the authors parse_article keeps: a LastName, and a first affiliation text
\* that is classified as a company
Kept ==
    { a \in 1..Len(TheAuthors) :
        /\ Truthy(TheAuthors[a].LastName)
        /\ TheAuthors[a].Affiliations # << >>
        /\ is_company_affiliation(TheAuthors[a].Affiliations[1]) }

FirstText(a) == TheAuthors[a].Affiliations[1]

\* the n-th kept author, in document order
NthKept(n) == CHOOSE a \in Kept : Cardinality({ b \in Kept : b <= a }) = n

\* C6: parse_article raises nothing on an article element, whatever is missing
\* from it, and returns the six fields, each missing value replaced by its
\* sentinel; an article without authors gets the last three sentinels.
C6_SentinelsForMissingFields ==
    /\ article # None => errors = << >>
    /\ record # {}
       => LET r == The(record)
              a == The(article)
          IN  /\ DOMAIN r = { "PubmedID", "Title", "PublicationDate", "NonAcademicAuthors",
                              "CompanyAffiliations", "CorrespondingAuthorEmail" }
              /\ r.PubmedID = IF pmid = << >> THEN PUBMED_ID_NOT_FOUND ELSE pmid
              /\ r.Title = IF Truthy(a.ArticleTitle) THEN The(a.ArticleTitle) ELSE UNKNOWN_TITLE
              /\ (a.PubDate = None \/ ~Truthy(The(a.PubDate).Year)) => r.PublicationDate = UNKNOWN_DATE
              /\ r.PublicationDate # << >>
              /\ Kept = {} => /\ r.NonAcademicAuthors = NO_NON_ACADEMIC_AUTHORS
                              /\ r.CompanyAffiliations = NO_COMPANY_AFFILIATIONS
              /\ MailNodes = {} => r.CorrespondingAuthorEmail = EMAIL_NOT_FOUND
              /\ TheAuthors = << >>
                 => /\ r.NonAcademicAuthors = NO_NON_ACADEMIC_AUTHORS
                    /\ r.CompanyAffiliations = NO_COMPANY_AFFILIATIONS
                    /\ r.CorrespondingAuthorEmail = EMAIL_NOT_FOUND

\* a record has been returned for an article without identifier, title, date
\* and author list: the six fields hold the six sentinels
C6_Witness ==
    /\ record # {}
    /\ pmid = << >>
    /\ The(article) = Article(None, None, None)
    /\ The(record) = [ PubmedID |-> PUBMED_ID_NOT_FOUND, Title |-> UNKNOWN_TITLE,
                       PublicationDate |-> UNKNOWN_DATE,
                       NonAcademicAuthors |-> NO_NON_ACADEMIC_AUTHORS,
                       CompanyAffiliations |-> NO_COMPANY_AFFILIATIONS,
                       CorrespondingAuthorEmail |-> EMAIL_NOT_FOUND ]

\* the texts of all affiliation nodes of an author
AllTexts(a) == { TheAuthors[a].Affiliations[k] : k \in 1..Len(TheAuthors[a].Affiliations) }

\* C7 as stated: a display name is in the list only for an author whose own
\* affiliation is a company's, and every affiliation node of every author node
\* that is classified as a company has its extracted name in the company set.
C7_EveryCompanyAffiliationContributes ==
    pc = "returned"
    => /\ Len(non_academic_authors) = Cardinality(Kept)
       /\ \A a \in 1..Len(TheAuthors) : \A t \in AllTexts(a) :
             (is_company_affiliation(t) /\ Truthy(extract_company_name(t)))
             => The(extract_company_name(t)) \in company_affiliations

\* C7 as amended: the list holds, in document order, the display names of
\* the authors that have a LastName and whose first affiliation text is
\* classified as a company, and the company set holds exactly the non-empty
\* names extracted from those first affiliation texts.
C7_FirstAffiliationOfNamedAuthors ==
    pc = "returned"
    => /\ Len(non_academic_authors) = Cardinality(Kept)
       /\ \A n \in 1..Len(non_academic_authors) :
             non_academic_authors[n] = display_name(TheAuthors[NthKept(n)])
       /\ company_affiliations =
             { The(extract_company_name(FirstText(a))) :
                 a \in { b \in Kept : Truthy(extract_company_name(FirstText(b))) } }

\* a record has been returned for an article in which a company affiliation
\* that is not a named author's first one contributed nothing
C7_Witness ==
    /\ pc = "returned"
    /\ Kept # {}
    /\ \E a \in 1..Len(TheAuthors) : \E t \in AllTexts(a) :
          /\ is_company_affiliation(t)
          /\ Truthy(extract_company_name(t))
          /\ The(extract_company_name(t)) \notin company_affiliations

\* a text without comma and without a capitalized run that ends in a legal suffix
Plain(t) == (\A i \in 1..Len(t) : t[i] # ",") /\ NameStarts(t) = {}

\* C8 as stated: a kept author whose affiliation has no comma and no
\* capitalized run ending in a legal suffix is in the list, and adds no name to
\* the company set: the set holds only names of the other kept affiliations.
C8_PlainCompanyTextAddsNoName ==
    pc = "returned"
    => \A a \in Kept :
          Plain(FirstText(a))
          => /\ \E n \in 1..Len(non_academic_authors) : NthKept(n) = a
             /\ company_affiliations \subseteq
                   { The(extract_company_name(FirstText(b))) :
                       b \in { c \in Kept : ~Plain(FirstText(c)) /\ Truthy(extract_company_name(FirstText(c))) } }

\* C8 as amended: for such an affiliation the extracted name is the whole text
\* stripped, which is not empty: the author is in the list and that name is in
\* the company set.
C8_PlainCompanyTextIsItsOwnName ==
    pc = "returned"
    => \A a \in Kept :
          Plain(FirstText(a))
          => /\ \E n \in 1..Len(non_academic_authors) :
                   NthKept(n) = a /\ non_academic_authors[n] = display_name(TheAuthors[a])
             /\ strip(FirstText(a)) # << >>
             /\ strip(FirstText(a)) \in company_affiliations

\* a record has been returned for an article with a kept author whose
\* affiliation is such a text
C8_Witness ==
    /\ pc = "returned"
    /\ \E a \in Kept : Plain(FirstText(a)) /\ FirstText(a) \in company_affiliations

\* the author nodes that have a non-empty LastName
Named == { a \in 1..Len(TheAuthors) : TheAuthors[a].LastName \notin { None, Some(<< >>) } }

\* the n-th of them, in document order
NthNamed(n) == CHOOSE a \in Named : Cardinality({ b \in Named : b <= a }) = n

\* C11: extract_author_affiliations returns one entry per author node that has
\* a non-empty LastName, in document order, and none for the other nodes; the
\* name is "ForeName LastName", else "Initials LastName", else LastName; the
\* affiliation is the text of the author's first affiliation node, empty when
\* there is none; the email is extract_email of that text.
C11_OneEntryPerNamedAuthor ==
    author_affiliations # {}
    => LET entries == The(author_affiliations)
       IN  /\ Len(entries) = Cardinality(Named)
           /\ \A n \in 1..Len(entries) :
                 LET author == TheAuthors[NthNamed(n)]
                     last   == The(author.LastName)
                     text   == IF author.Affiliations = << >> THEN << >> ELSE author.Affiliations[1]
                 IN  /\ Truthy(author.ForeName)
                        => entries[n].name = The(author.ForeName) \o <<" ">> \o last
                     /\ (~Truthy(author.ForeName) /\ Truthy(author.Initials))
                        => entries[n].name = The(author.Initials) \o <<" ">> \o last
                     /\ (~Truthy(author.ForeName) /\ ~Truthy(author.Initials))
                        => entries[n].name = last
                     /\ entries[n].affiliation = text
                     /\ entries[n].email = extract_email(text)

\* the entries have been extracted from an author list of a node without
\* LastName followed by a node with Initials only: one entry, named by the
\* initials, whose email comes from its affiliation text
C11_Witness ==
    /\ author_affiliations # {}
    /\ Len(TheAuthors) = 2
    /\ TheAuthors[1].LastName = None
    /\ ~Truthy(TheAuthors[2].ForeName) /\ Truthy(TheAuthors[2].Initials)
    /\ Len(The(author_affiliations)) = 1
    /\ The(author_affiliations)[1].name = <<"R"," ","R","o","e">>
    /\ The(author_affiliations)[1].affiliation = COMPANY_MAIL
    /\ The(author_affiliations)[1].email = Some(<<"c","@","d",".","i","o">>)

\* C13: in the record parse_article returns, the two fields are the joins of
\* the list of kept display names and of the set of company names; when
\* CompanyAffiliations is not its sentinel, NonAcademicAuthors is not its
\* sentinel either, and the set joined into CompanyAffiliations has at most as
\* many names as the list joined into NonAcademicAuthors.
C13_CompaniesImplyAuthors ==
    record # {}
    => LET r == The(record)
       IN  /\ r.NonAcademicAuthors =
                 IF non_academic_authors = << >> THEN NO_NON_ACADEMIC_AUTHORS
                 ELSE join(SEP, non_academic_authors)
           /\ r.CompanyAffiliations \in
                 IF company_affiliations = {} THEN { NO_COMPANY_AFFILIATIONS }
                 ELSE { join(SEP, order) : order \in Orders(company_affiliations) }
           /\ r.CompanyAffiliations # NO_COMPANY_AFFILIATIONS
              => r.NonAcademicAuthors # NO_NON_ACADEMIC_AUTHORS
           /\ Cardinality(company_affiliations) <= Len(non_academic_authors)

\* a record with company names has been returned for an article in which a
\* named author's affiliation holds a company name and is not classified as a
\* company, next to an author who is kept
C13_Witness ==
    /\ record # {}
    /\ The(record).CompanyAffiliations # NO_COMPANY_AFFILIATIONS
    /\ Kept # {}
    /\ \E a \in Named \ Kept :
          /\ TheAuthors[a].Affiliations # << >>
          /\ Truthy(extract_company_name(FirstText(a)))

-----------------------------------------------------------------------------
(* Properties of cli.main (Spec)                                           *)

\* the items of the batch whose article can be traversed, among the first n
Parsed(n) == { i \in 1..n : articles[i][2] # None }

\* C9: the filter keeps exactly the records with at least one non-academic
\* author: a record whose NonAcademicAuthors is "No Non-Academic Authors" is
\* not in the output, every other record is.
C9_FilterKeepsCompanyPapersOnly ==
    pc = "filtered"
    => /\ DOMAIN The(filtered_papers) =
             { id \in DOMAIN papers : papers[id].NonAcademicAuthors # NO_NON_ACADEMIC_AUTHORS }
       /\ \A id \in DOMAIN The(filtered_papers) : The(filtered_papers)[id] = papers[id]

\* C10: after any number of iterations the papers dict holds one record per
\* article that parsed without error so far, under its pmid, and none for an
\* article whose parsing raised; the loop ends only after the last article.
C10_BatchSurvivesFailures ==
    /\ DOMAIN papers = { articles[i][1] : i \in Parsed(idx) }
    /\ \A i \in Parsed(idx) : papers[articles[i][1]] \in parse_article(articles[i][1], The(articles[i][2]))
    /\ \A i \in 1..Len(errors) : errors[i] \notin DOMAIN papers
    /\ Len(errors) + Cardinality(Parsed(idx)) = idx
    /\ pc = "filtered" => idx = Len(articles)

\* the loop is over, an article failed and a later one was parsed
C10_Witness ==
    /\ pc = "filtered"
    /\ \E i, j \in 1..Len(articles) :
          /\ i < j
          /\ articles[i][2] = None
          /\ articles[j][1] \in DOMAIN papers

====
